---- MODULE Spec2Model ----
(***************************************************************************)
(* Model of sled's Lazy<T, F> (src/src/lazy.rs): a lazily initialized      *)
(* value built from an AtomicPtr slot `value`, an AtomicBool spin lock     *)
(* `init_mu` and a stored initializer `init`.                              *)
(*                                                                         *)
(* Every atomic operation of `deref` is one action per thread.  The        *)
(* Acquire / SeqCst orderings are modelled by happens-before sets: hb[t]   *)
(* is the set of heap allocations whose construction happens-before the    *)
(* current point of thread t, valueRel / muRel are what the last write to  *)
(* `value` / `init_mu` released.                                           *)
(***************************************************************************)
EXTENDS Integers, Sequences, FiniteSets, TLC

\* ------------------------------------------------------------------ bounds
NumThreads == 3
MaxCalls == 2

Threads == 1 .. NumThreads

\* std::ptr::null_mut()
Null == 0

\* Addresses the allocator can hand out: every call allocates at most once.
Ptrs == 1 .. (NumThreads * MaxCalls)

VARIABLES
    value,        \* Lazy.value    : AtomicPtr<T>
    init_mu,      \* Lazy.init_mu  : AtomicBool
    pc,           \* per thread: the line of deref it is at
    value_ptr,    \* per thread: the local `value_ptr`
    local_value,  \* per thread: the local `value` (result of (self.init)())
    calls,        \* per thread: number of deref calls started
    rets,         \* per thread: what each returned deref call yielded
    initCalls,    \* number of invocations of the initializer
    counter,      \* the shared counter the initializer increments
    heap,         \* allocator state of every address
    frees,        \* per address: number of times it was released
    dropped,      \* the cell has been dropped
    hb,           \* per thread: allocations whose construction happens-before it
    valueRel,     \* allocations released by the last write of `value`
    muRel         \* allocations released by the last write of `init_mu`

vars == << value, init_mu, pc, value_ptr, local_value, calls, rets, initCalls,
           counter, heap, frees, dropped, hb, valueRel, muRel >>

cell  == << value, init_mu >>
locals == << value_ptr, local_value >>
mem   == << heap, frees >>
order == << hb, valueRel, muRel >>

\* ------------------------------------------------------------- helpers

\* Positions at which a thread has acquired init_mu and not yet released it.
\* A thread whose initializer or slot assertion panicked never releases it.
GuardedPcs == { "load73", "unlock78", "init88", "in_init", "box89", "swap91",
                "unlock94", "init_panicked", "assert92" }

\* Positions of a thread that unwound out of deref by a panic.
PanicPcs == { "init_panicked", "assert79", "assert92", "assert95" }

InFlight(t) == pc[t] \notin ({"idle"} \cup PanicPcs)

Allocated == { p \in Ptrs : heap[p].st # "unallocated" }

RECURSIVE SumFrees(_)
SumFrees(S) ==
    IF S = {} THEN 0
    ELSE LET p == CHOOSE q \in S : TRUE IN frees[p] + SumFrees(S \ {p})

\* The initializer of the test scenarios: counter.fetch_add(1), which
\* returns the value the counter had before the increment.
InitializerResult(c) == c

\* What a caller reads through the returned reference `&*p`.  The read is
\* defined only when the construction of *p happens-before it.
Observe(p, seen, via) ==
    LET whole == p \in seen /\ heap[p].st = "built"
    IN  { [ptr |-> p, val |-> v, whole |-> whole, via |-> via] :
            v \in IF whole THEN {heap[p].val} ELSE 0 .. counter }

\* `return &*p` : the call of thread t ends with a reference to *p; `via` is
\* the return statement taken (line 55 "fast", line 82 "recheck", line 99 "init").
Return(t, p, seen, via) ==
    /\ \E r \in Observe(p, seen, via) : rets' = [rets EXCEPT ![t] = Append(@, r)]
    /\ pc' = [pc EXCEPT ![t] = "idle"]

\* ------------------------------------------------------------------ Init

\* Variant of `new` that runs the initializer and allocates at construction.
newEager == [value |-> 1, init_mu |-> FALSE, initCalls |-> 1, allocated |-> {1}]

\* Lazy::new : value = null, init_mu = false; nothing is allocated or run.
new == [value |-> Null, init_mu |-> FALSE, initCalls |-> 0, allocated |-> {}]

Init ==
    /\ value = new.value
    /\ init_mu = new.init_mu
    /\ initCalls = new.initCalls
    /\ heap = [p \in Ptrs |->
                 IF p \in new.allocated THEN [st |-> "built", val |-> 0]
                                        ELSE [st |-> "unallocated", val |-> 0]]
    /\ frees = [p \in Ptrs |-> 0]
    /\ counter = 0
    /\ pc = [t \in Threads |-> "idle"]
    /\ value_ptr = [t \in Threads |-> Null]
    /\ local_value = [t \in Threads |-> 0]
    /\ calls = [t \in Threads |-> 0]
    /\ rets = [t \in Threads |-> << >>]
    /\ dropped = FALSE
    /\ hb = [t \in Threads |-> {}]
    /\ valueRel = {}
    /\ muRel = {}

\* --------------------------------------------------------------- actions

\* A thread calls deref (line 49).
Call(t) ==
    /\ pc[t] = "idle"
    /\ ~dropped
    /\ calls[t] < MaxCalls
    /\ calls' = [calls EXCEPT ![t] = @ + 1]
    /\ pc' = [pc EXCEPT ![t] = "load51"]
    /\ UNCHANGED << cell, locals, rets, initCalls, counter, mem, dropped, order >>

\* Variant of FastPath whose load is Relaxed: it synchronizes with nothing.
FastPathRelaxed(t) ==
    /\ pc[t] = "load51"
    /\ value_ptr' = [value_ptr EXCEPT ![t] = value]
    /\ IF value # Null
         THEN Return(t, value, hb[t], "fast")
         ELSE /\ pc' = [pc EXCEPT ![t] = "cas62"]
              /\ rets' = rets
    /\ UNCHANGED << cell, local_value, calls, initCalls, counter, mem, dropped,
                    order >>

\* Variant of FastPath without the early return: it always goes for the lock.
FastPathAlwaysLocks(t) ==
    /\ pc[t] = "load51"
    /\ hb' = [hb EXCEPT ![t] = @ \cup valueRel]
    /\ value_ptr' = [value_ptr EXCEPT ![t] = value]
    /\ pc' = [pc EXCEPT ![t] = "cas62"]
    /\ UNCHANGED << cell, local_value, calls, rets, initCalls, counter, mem,
                    dropped, valueRel, muRel >>

\* Lines 50-58: value.load(Acquire); return &*value_ptr if it is not null.
FastPath(t) ==
    /\ pc[t] = "load51"
    /\ LET seen == hb[t] \cup valueRel IN
        /\ hb' = [hb EXCEPT ![t] = seen]
        /\ value_ptr' = [value_ptr EXCEPT ![t] = value]
        /\ IF value # Null
             THEN Return(t, value, seen, "fast")
             ELSE /\ pc' = [pc EXCEPT ![t] = "cas62"]
                  /\ rets' = rets
    /\ UNCHANGED << cell, local_value, calls, initCalls, counter, mem, dropped,
                    valueRel, muRel >>

\* Variant of Acquire that stores true without comparing (no exclusion).
AcquireNoCas(t) ==
    /\ pc[t] = "cas62"
    /\ hb' = [hb EXCEPT ![t] = @ \cup muRel]
    /\ init_mu' = TRUE
    /\ muRel' = hb[t] \cup muRel
    /\ pc' = [pc EXCEPT ![t] = "load73"]
    /\ UNCHANGED << value, locals, calls, rets, initCalls, counter, mem, dropped,
                    valueRel >>

\* Lines 62-66: init_mu.compare_exchange(false, true, SeqCst, SeqCst).
Acquire(t) ==
    /\ pc[t] = "cas62"
    /\ hb' = [hb EXCEPT ![t] = @ \cup muRel]
    /\ IF init_mu = FALSE
         THEN /\ init_mu' = TRUE
              /\ muRel' = hb[t] \cup muRel
              /\ pc' = [pc EXCEPT ![t] = "load73"]
         ELSE /\ UNCHANGED << init_mu, muRel >>
              /\ pc' = [pc EXCEPT ![t] = "spin69"]
    /\ UNCHANGED << value, locals, calls, rets, initCalls, counter, mem, dropped,
                    valueRel >>

\* Variant of Spin that leaves the loop after one hint (`if` for `while`).
SpinOnce(t) ==
    /\ pc[t] = "spin69"
    /\ pc' = [pc EXCEPT ![t] = "load73"]
    /\ UNCHANGED << cell, locals, calls, rets, initCalls, counter, mem, dropped,
                    order >>

\* Line 69: spin_loop_hint(), then the loop condition is evaluated again.
Spin(t) ==
    /\ pc[t] = "spin69"
    /\ pc' = [pc EXCEPT ![t] = "cas62"]
    /\ UNCHANGED << cell, locals, calls, rets, initCalls, counter, mem, dropped,
                    order >>

\* Variant of Recheck without the second null check: always initializes.
RecheckNoSecondCheck(t) ==
    /\ pc[t] = "load73"
    /\ hb' = [hb EXCEPT ![t] = @ \cup valueRel]
    /\ value_ptr' = [value_ptr EXCEPT ![t] = value]
    /\ pc' = [pc EXCEPT ![t] = "init88"]
    /\ UNCHANGED << cell, local_value, calls, rets, initCalls, counter, mem,
                    dropped, valueRel, muRel >>

\* Lines 73-77: the second value.load(Acquire), under the lock.
Recheck(t) ==
    /\ pc[t] = "load73"
    /\ hb' = [hb EXCEPT ![t] = @ \cup valueRel]
    /\ value_ptr' = [value_ptr EXCEPT ![t] = value]
    /\ pc' = [pc EXCEPT ![t] = IF value # Null THEN "unlock78" ELSE "init88"]
    /\ UNCHANGED << cell, local_value, calls, rets, initCalls, counter, mem,
                    dropped, valueRel, muRel >>

\* Variant of RecheckUnlock that returns without releasing init_mu.
RecheckReturnNoUnlock(t) ==
    /\ pc[t] = "unlock78"
    /\ Return(t, value_ptr[t], hb[t], "recheck")
    /\ UNCHANGED << cell, locals, calls, initCalls, counter, mem, dropped, order >>

\* Lines 78-83: init_mu.swap(false, SeqCst); assert!(unlock); return &*value_ptr.
RecheckUnlock(t) ==
    /\ pc[t] = "unlock78"
    /\ LET seen == hb[t] \cup muRel IN
        /\ hb' = [hb EXCEPT ![t] = seen]
        /\ muRel' = seen
        /\ init_mu' = FALSE
        /\ IF init_mu
             THEN Return(t, value_ptr[t], seen, "recheck")
             ELSE /\ pc' = [pc EXCEPT ![t] = "assert79"]
                  /\ rets' = rets
    /\ UNCHANGED << value, locals, calls, initCalls, counter, mem, dropped,
                    valueRel >>

\* Line 88: (self.init)() is entered.
InitCall(t) ==
    /\ pc[t] = "init88"
    /\ initCalls' = initCalls + 1
    /\ pc' = [pc EXCEPT ![t] = "in_init"]
    /\ UNCHANGED << cell, locals, calls, rets, counter, mem, dropped, order >>

\* Line 88: the initializer returns its value.
InitReturn(t) ==
    /\ pc[t] = "in_init"
    /\ local_value' = [local_value EXCEPT ![t] = InitializerResult(counter)]
    /\ counter' = counter + 1
    /\ pc' = [pc EXCEPT ![t] = "box89"]
    /\ UNCHANGED << cell, value_ptr, calls, rets, initCalls, mem, dropped, order >>

\* Variant of InitAbort in which unwinding releases init_mu.
InitAbortReleases(t) ==
    /\ pc[t] = "in_init"
    /\ pc' = [pc EXCEPT ![t] = "init_panicked"]
    /\ init_mu' = FALSE
    /\ UNCHANGED << value, locals, calls, rets, initCalls, counter, mem, dropped,
                    order >>

\* Line 88: the initializer panics; deref unwinds, nothing resets init_mu.
InitAbort(t) ==
    /\ pc[t] = "in_init"
    /\ pc' = [pc EXCEPT ![t] = "init_panicked"]
    /\ UNCHANGED << cell, locals, calls, rets, initCalls, counter, mem, dropped,
                    order >>

\* Variant of BoxNew that boxes a second invocation of the initializer.
BoxNewCallsInitAgain(t) ==
    /\ pc[t] = "box89"
    /\ \E p \in Ptrs :
        /\ heap[p].st = "unallocated"
        /\ \A q \in Ptrs : q < p => heap[q].st # "unallocated"
        /\ heap' = [heap EXCEPT ![p] = [st |-> "built",
                                        val |-> InitializerResult(counter)]]
        /\ value_ptr' = [value_ptr EXCEPT ![t] = p]
        /\ hb' = [hb EXCEPT ![t] = @ \cup {p}]
    /\ initCalls' = initCalls + 1
    /\ counter' = counter + 1
    /\ pc' = [pc EXCEPT ![t] = "swap91"]
    /\ UNCHANGED << cell, local_value, calls, rets, frees, dropped, valueRel,
                    muRel >>

\* Variant of BoxNew followed by init_mu.swap(false): the lock is released
\* before the slot is written.
BoxNewThenUnlock(t) ==
    /\ pc[t] = "box89"
    /\ \E p \in Ptrs :
        /\ heap[p].st = "unallocated"
        /\ \A q \in Ptrs : q < p => heap[q].st # "unallocated"
        /\ heap' = [heap EXCEPT ![p] = [st |-> "built", val |-> local_value[t]]]
        /\ value_ptr' = [value_ptr EXCEPT ![t] = p]
        /\ hb' = [hb EXCEPT ![t] = @ \cup {p} \cup muRel]
        /\ muRel' = hb[t] \cup {p} \cup muRel
    /\ init_mu' = FALSE
    /\ pc' = [pc EXCEPT ![t] = "swap91"]
    /\ UNCHANGED << value, local_value, calls, rets, initCalls, counter, frees,
                    dropped, valueRel >>

\* Line 89: Box::into_raw(Box::new(value)): a fresh allocation holding value.
BoxNew(t) ==
    /\ pc[t] = "box89"
    /\ \E p \in Ptrs :
        /\ heap[p].st = "unallocated"
        /\ \A q \in Ptrs : q < p => heap[q].st # "unallocated"
        /\ heap' = [heap EXCEPT ![p] = [st |-> "built", val |-> local_value[t]]]
        /\ value_ptr' = [value_ptr EXCEPT ![t] = p]
        /\ hb' = [hb EXCEPT ![t] = @ \cup {p}]
    /\ pc' = [pc EXCEPT ![t] = "swap91"]
    /\ UNCHANGED << cell, local_value, calls, rets, initCalls, counter, frees,
                    dropped, valueRel, muRel >>

\* Variant of Publish that does not store the pointer into the slot.
PublishSkipped(t) ==
    /\ pc[t] = "swap91"
    /\ pc' = [pc EXCEPT ![t] = IF value = Null THEN "unlock94" ELSE "assert92"]
    /\ UNCHANGED << cell, locals, calls, rets, initCalls, counter, mem, dropped,
                    order >>

\* Lines 91-92: value.swap(value_ptr, SeqCst); assert!(old.is_null()).
Publish(t) ==
    /\ pc[t] = "swap91"
    /\ value' = value_ptr[t]
    /\ hb' = [hb EXCEPT ![t] = @ \cup valueRel]
    /\ valueRel' = hb[t] \cup valueRel
    /\ pc' = [pc EXCEPT ![t] = IF value = Null THEN "unlock94" ELSE "assert92"]
    /\ UNCHANGED << init_mu, locals, calls, rets, initCalls, counter, mem, dropped,
                    muRel >>

\* Variant of Unlock that returns the reference without releasing init_mu.
UnlockReturnNoUnlock(t) ==
    /\ pc[t] = "unlock94"
    /\ Return(t, value_ptr[t], hb[t], "init")
    /\ UNCHANGED << cell, locals, calls, initCalls, counter, mem, dropped, order >>

\* Lines 94-100: init_mu.swap(false, SeqCst); assert!(unlock); &*value_ptr.
Unlock(t) ==
    /\ pc[t] = "unlock94"
    /\ LET seen == hb[t] \cup muRel IN
        /\ hb' = [hb EXCEPT ![t] = seen]
        /\ muRel' = seen
        /\ init_mu' = FALSE
        /\ IF init_mu
             THEN Return(t, value_ptr[t], seen, "init")
             ELSE /\ pc' = [pc EXCEPT ![t] = "assert95"]
                  /\ rets' = rets
    /\ UNCHANGED << value, locals, calls, initCalls, counter, mem, dropped,
                    valueRel >>

\* Variant of Drop that never releases the boxed value.
DropLeak ==
    /\ ~dropped
    /\ \A t \in Threads : ~InFlight(t)
    /\ dropped' = TRUE
    /\ UNCHANGED << cell, pc, locals, calls, rets, initCalls, counter, mem, order >>

\* Lines 31-41: Drop.  `&mut self` means no deref call is in flight.
Drop ==
    /\ ~dropped
    /\ \A t \in Threads : ~InFlight(t)
    /\ dropped' = TRUE
    /\ IF value # Null
         THEN /\ frees' = [frees EXCEPT ![value] = @ + 1]
              /\ heap' = [heap EXCEPT ![value].st = "freed"]
         ELSE UNCHANGED mem
    /\ UNCHANGED << cell, pc, locals, calls, rets, initCalls, counter, order >>

\* ------------------------------------------------------ specifications

Step(t) ==
    \/ FastPath(t)
    \/ Acquire(t)
    \/ Spin(t)
    \/ Recheck(t)
    \/ RecheckUnlock(t)
    \/ InitCall(t)
    \/ InitReturn(t)
    \/ BoxNew(t)
    \/ Publish(t)
    \/ Unlock(t)

Next ==
    \/ \E t \in Threads : Call(t)
    \/ \E t \in Threads : Step(t)
    \/ \E t \in Threads : InitAbort(t)
    \/ Drop

Spec == Init /\ [][Next]_vars

\* The initializer always terminates and every thread keeps being scheduled.
NextLive ==
    \/ \E t \in Threads : Call(t)
    \/ \E t \in Threads : Step(t)
    \/ Drop

LiveSpec == Init /\ [][NextLive]_vars /\ \A t \in Threads : WF_vars(Step(t))

\* ---------------------------------------------------------------- claims

Returned == { t \in Threads : Len(rets[t]) > 0 }

AllRets == UNION { { rets[t][i] : i \in 1 .. Len(rets[t]) } : t \in Threads }

\* C1: the initializer is invoked at most once in every reachable state, and
\* exactly once as soon as any deref call has returned.
C1_InitExactlyOnce ==
    /\ initCalls <= 1
    /\ (Returned # {} => initCalls = 1)

\* Every thread has made and finished all its calls, after a race in which a
\* second thread took the lock too.
C1_Witness ==
    /\ \A t \in Threads : Len(rets[t]) = MaxCalls
    /\ \E r \in AllRets : r.via = "recheck"
    /\ initCalls = 1

\* C2: any two deref calls that returned, by any of the three return
\* statements and from any threads, returned the same pointer, which is the
\* pointer in the slot.
C2_SameInstance ==
    \A r \in AllRets : r.ptr = value /\ \A q \in AllRets : q.ptr = r.ptr

\* Calls have returned by the fast path, by the re-check path and by the
\* initializing path.
C2_Witness ==
    /\ \E r \in AllRets : r.via = "fast"
    /\ \E r \in AllRets : r.via = "recheck"
    /\ \E r \in AllRets : r.via = "init"

\* C3: whenever the slot is occupied, a thread holds a non-null value_ptr or
\* a call has returned, every invocation of the initializer has completed,
\* the allocation pointed to holds the built value and, for the reading
\* thread, that construction happens-before the read.
C3_PublishedAfterBuilt ==
    /\ (value # Null /\ ~dropped) =>
          /\ heap[value].st = "built"
          /\ counter >= 1
          /\ initCalls = counter
    /\ \A t \in Threads :
          (value_ptr[t] # Null /\ InFlight(t)) =>
              /\ heap[value_ptr[t]].st = "built"
              /\ value_ptr[t] \in hb[t]
    /\ \A r \in AllRets : r.whole

\* A thread other than the initializing one has read the slot as occupied
\* under the lock while another call has already returned by the fast path.
C3_Witness ==
    /\ \E t \in Threads : pc[t] = "unlock78" /\ value_ptr[t] = value
    /\ \E r \in AllRets : r.via = "fast"

\* C4: every returned call yields the result of the single initializer
\* invocation, the pre-increment value of the counter, and the counter says
\* one invocation.
C4_ReturnsInitResult ==
    \A r \in AllRets :
        /\ r.val = InitializerResult(0)
        /\ (~dropped => r.val = heap[r.ptr].val)
        /\ counter = 1
        /\ initCalls = 1

\* One thread has returned twice (first access, later access) and every other
\* thread has returned as well.
C4_Witness ==
    /\ \E t \in Threads : Len(rets[t]) >= 2 /\ rets[t][1].via = "init"
    /\ \A t \in Threads : Len(rets[t]) >= 1

\* C5: as long as no deref call has started, the slot is empty, the lock is
\* unlocked, the initializer has not run and nothing was allocated or
\* released; this includes the state after dropping a never-accessed cell.
C5_Lazy ==
    (\A t \in Threads : calls[t] = 0) =>
        /\ value = Null
        /\ init_mu = FALSE
        /\ initCalls = 0
        /\ counter = 0
        /\ Allocated = {}
        /\ SumFrees(Ptrs) = 0

\* A cell is dropped without ever having been accessed.
C5_Witness == dropped /\ \A t \in Threads : calls[t] = 0

\* C6: nothing is released before drop; drop releases the value of an
\* occupied slot exactly once and releases nothing for an empty slot; after
\* drop as many values were released as deref calls allocated.
C6_DropReleasesOnce ==
    /\ ~dropped => SumFrees(Ptrs) = 0
    /\ dropped =>
          /\ \A p \in Ptrs : frees[p] = IF p = value THEN 1 ELSE 0
          /\ (value # Null => heap[value].st = "freed")
          /\ Cardinality(Allocated) = SumFrees(Ptrs)

\* An initialized cell that several threads have accessed is dropped.
C6_Witness ==
    /\ dropped
    /\ value # Null
    /\ frees[value] = 1
    /\ Cardinality(Returned) >= 2

Aborted == \E t \in Threads : pc[t] = "init_panicked"

\* C7: once the initializer has panicked in the thread holding the lock, the
\* lock stays locked and the slot stays empty, no call returns any more, and
\* every call in flight is before or in the spin loop.
C7_AbortDeadlocks ==
    [][ /\ Aborted' =>
            /\ init_mu' = TRUE
            /\ value' = Null
            /\ \A t \in Threads :
                  InFlight(t)' => pc'[t] \in {"load51", "cas62", "spin69"}
        /\ Aborted => (Aborted' /\ rets' = rets) ]_vars

\* The initializer has panicked, every other thread has called deref and is
\* in the spin loop, and no call has returned.
C7_Witness ==
    /\ Aborted
    /\ \A t \in Threads : pc[t] # "init_panicked" => pc[t] = "spin69"
    /\ Returned = {}

\* Uninitialized (0) -> Initializing (1) -> Initialized (2)
CellState == IF value # Null THEN 2 ELSE IF init_mu THEN 1 ELSE 0

\* C8: once the slot is occupied no step changes it (so it is written at most
\* once and never emptied), and the cell-level state never regresses.
C8_SlotWriteOnce ==
    [][ /\ (value # Null => value' = value)
        /\ CellState' >= CellState ]_vars

\* The slot is occupied while a later lock holder is about to release the
\* lock on the re-check path.
C8_Witness ==
    /\ value # Null
    /\ \E t \in Threads : pc[t] = "unlock78"
    /\ \E t \in Threads : pc[t] = "spin69"

Holders == { t \in Threads : pc[t] \in GuardedPcs }

\* C9: at most one thread is between a successful compare_exchange on
\* init_mu and its swap back to false.
C9_MutualExclusion == Cardinality(Holders) <= 1

\* One thread is in the guarded section while another spins and a third is
\* about to try the compare_exchange.
C9_Witness ==
    /\ Cardinality(Holders) = 1
    /\ \E t \in Threads : pc[t] = "spin69"
    /\ \E t \in Threads : pc[t] = "cas62"

\* C10: with an initializer that terminates and fair scheduling of every
\* thread, every deref call that has started eventually returns.
C10_EveryCallReturns ==
    \A t \in Threads : (pc[t] # "idle") ~> (pc[t] = "idle")

\* Every thread but the lock holder is spin-waiting.
C10_Witness ==
    /\ \E t \in Threads : pc[t] = "in_init"
    /\ \A t \in Threads : pc[t] # "in_init" => pc[t] = "spin69"

AssertPcs == { "assert79", "assert92", "assert95" }

\* C11: no assertion of deref fails: no thread is ever at a failed assert!,
\* a thread about to swap the slot finds it null, and a thread about to swap
\* init_mu to false (on either path) finds it true.
C11_AssertionsHold ==
    \A t \in Threads :
        /\ pc[t] \notin AssertPcs
        /\ (pc[t] = "swap91" => value = Null)
        /\ (pc[t] \in {"unlock78", "unlock94"} => init_mu = TRUE)

\* One call has passed the slot swap and the unlock of the initializing
\* path, another the unlock of the re-check path, and the cell was dropped.
C11_Witness ==
    /\ \E r \in AllRets : r.via = "init"
    /\ \E r \in AllRets : r.via = "recheck"
    /\ dropped

\* C12: a thread that holds the lock and loads an occupied slot at line 73
\* goes to the unlock of line 78, and its next step releases the lock and
\* returns the stored value; neither step invokes the initializer, allocates
\* or writes the slot.
C12_RecheckReturnsStored ==
    [][ \A t \in Threads :
          /\ (pc[t] = "load73" /\ value # Null /\ pc'[t] # pc[t]) =>
                /\ pc'[t] = "unlock78"
                /\ value_ptr'[t] = value
                /\ UNCHANGED << value, init_mu, initCalls, counter, heap >>
          /\ (pc[t] = "unlock78" /\ pc'[t] # pc[t]) =>
                /\ pc'[t] = "idle"
                /\ init_mu = TRUE /\ init_mu' = FALSE
                /\ UNCHANGED << value, initCalls, counter, heap >>
                /\ rets'[t] = Append(rets[t],
                                     [ptr |-> value, val |-> heap[value].val,
                                      whole |-> TRUE, via |-> "recheck"]) ]_vars

\* A thread's first call returned the stored value by the re-check path and
\* the lock is free again, after a single invocation of the initializer.
C12_Witness ==
    /\ \E t \in Threads :
          /\ Len(rets[t]) = 1
          /\ rets[t][1].via = "recheck"
          /\ rets[t][1].ptr = value
    /\ init_mu = FALSE
    /\ initCalls = 1

\* C13: a call that starts with the slot occupied reaches the load of line
\* 51, steps of other threads leave the slot occupied, and the thread's next
\* step returns the stored value; these steps leave the lock, the slot, the
\* initializer's invocation count and the heap unchanged and never go to the
\* compare_exchange.
C13_FastPathFrame ==
    [][ \A t \in Threads :
          /\ (pc[t] = "idle" /\ value # Null /\ pc'[t] # pc[t]) =>
                /\ pc'[t] = "load51"
                /\ UNCHANGED << value, init_mu, initCalls, counter, heap >>
          /\ (pc[t] = "load51" /\ value # Null /\ pc'[t] = pc[t]) =>
                value' = value
          /\ (pc[t] = "load51" /\ value # Null /\ pc'[t] # pc[t]) =>
                /\ pc'[t] = "idle"
                /\ UNCHANGED << value, init_mu, initCalls, counter, heap,
                                valueRel, muRel >>
                /\ rets'[t] = Append(rets[t],
                                     [ptr |-> value, val |-> heap[value].val,
                                      whole |-> TRUE, via |-> "fast"]) ]_vars

\* A later call of a thread returned by the fast path while another thread
\* holds the lock on the re-check path.
C13_Witness ==
    /\ \E t \in Threads : Len(rets[t]) = 2 /\ rets[t][2].via = "fast"
    /\ init_mu = TRUE
    /\ \E u \in Threads : pc[u] = "unlock78"

Quiescent == \A t \in Threads : ~InFlight(t)

\* C14 as stated: no thread outside a call holds the lock, and the lock is
\* unlocked whenever no deref call is in flight.  (Refuted by a call that
\* unwound from a panic of the initializer with the lock taken.)
C14_UnlockedWhenQuiescent ==
    /\ \A t \in Threads : pc[t] = "idle" => t \notin Holders
    /\ (Quiescent => init_mu = FALSE)

\* C14, amended: a locked lock always has a holder; only the holder unlocks
\* it, by the step that returns from its call; a holder that returns has
\* unlocked it; and the lock is unlocked whenever no call is in flight and no
\* invocation of the initializer has panicked.
C14_ReleasedByHolderInCall ==
    [][ /\ (init_mu' = TRUE => Holders' # {})
        /\ ((Quiescent' /\ ~Aborted') => init_mu' = FALSE)
        /\ ((init_mu = TRUE /\ init_mu' = FALSE) =>
               \E t \in Holders :
                  /\ pc[t] \in {"unlock78", "unlock94"}
                  /\ pc'[t] = "idle"
                  /\ Len(rets'[t]) = Len(rets[t]) + 1)
        /\ \A t \in Holders :
              pc'[t] = "idle" => (init_mu = TRUE /\ init_mu' = FALSE) ]_vars

\* Calls have returned through both unlocking paths, no call is in flight,
\* the cell is still alive and the lock is unlocked.
C14_Witness ==
    /\ \E r \in AllRets : r.via = "init"
    /\ \E r \in AllRets : r.via = "recheck"
    /\ \A t \in Threads : pc[t] = "idle"
    /\ ~dropped
    /\ init_mu = FALSE

\* Threads that loaded an empty slot at line 51 and wait for the lock.
Pending == { t \in Threads : pc[t] \in {"cas62", "spin69"} }

\* C15 as stated: the lock is locked only during the initializing phase, by
\* the thread that performs the initialization (until its unlock of line 94);
\* once the slot is occupied and that thread has unlocked, it is not locked.
C15_LockedOnlyByInitializer ==
    init_mu = TRUE => (value = Null \/ \E t \in Threads : pc[t] = "unlock94")

\* C15, amended: the lock is taken only by a thread that loaded an empty slot
\* at line 51 and has never returned from a call, so at most once per thread:
\* by the initializing thread and, after it, by each thread that was already
\* waiting (re-check path).  Once the slot is occupied no thread starts
\* waiting, and when no thread waits or holds, the lock is unlocked and the
\* next step leaves it unlocked.
C15_LockedOncePerEarlyThread ==
    [][ /\ \A t \in Threads :
              (t \notin Holders /\ t \in Holders') =>
                  /\ pc[t] = "cas62"
                  /\ value_ptr[t] = Null
                  /\ Len(rets[t]) = 0
                  /\ init_mu = FALSE /\ init_mu' = TRUE
        /\ ((init_mu = FALSE /\ init_mu' = TRUE) =>
               \E t \in Threads : t \notin Holders /\ t \in Holders')
        /\ (value # Null => Pending' \subseteq Pending)
        /\ ((value # Null /\ Pending = {} /\ Holders = {}) =>
               (init_mu = FALSE /\ init_mu' = FALSE)) ]_vars

\* After the initializing thread has returned, a thread that had been
\* waiting holds the lock with the slot occupied.
C15_Witness ==
    /\ \E r \in AllRets : r.via = "init"
    /\ \E t \in Threads : pc[t] = "load73"
    /\ value # Null
    /\ init_mu = TRUE

\* C16: the slot changes only in the swap of line 91, taken by the one
\* thread that holds the lock, with init_mu true before and after and the
\* slot null before, so it is written at most once and by one thread; every
\* other step of any thread leaves the slot as it is; and once a call has
\* returned that write has happened.
C16_SingleWriterUnderLock ==
    [][ /\ (value' # value =>
               \E t \in Threads :
                  /\ pc[t] = "swap91" /\ pc'[t] = "unlock94"
                  /\ Holders = {t}
                  /\ init_mu = TRUE /\ init_mu' = TRUE
                  /\ value = Null
                  /\ value' = value_ptr[t] /\ value' # Null
                  /\ \A u \in Threads \ {t} : pc'[u] = pc[u])
        /\ \A t \in Threads :
              (pc[t] # "swap91" /\ pc'[t] # pc[t]) => value' = value
        /\ (Returned' # {} => value' # Null) ]_vars

\* The lock holder has just written the slot while one thread spins and
\* another is about to load the slot.
C16_Witness ==
    /\ \E t \in Threads : pc[t] = "unlock94" /\ value = value_ptr[t]
    /\ \E u \in Threads : pc[u] = "spin69"
    /\ \E u \in Threads : pc[u] = "load51"

\* C17: whenever the initializer has been invoked and the lock is unlocked,
\* the slot is occupied; so a thread that has taken the lock after an
\* invocation is about to load an occupied slot, and a thread that loaded an
\* empty slot under the lock did so before any invocation.
C17_PublishBeforeUnlock ==
    /\ (initCalls > 0 /\ init_mu = FALSE) => value # Null
    /\ \A t \in Threads :
          /\ (pc[t] = "load73" /\ initCalls > 0) => value # Null
          /\ pc[t] = "init88" => initCalls = 0

\* After the one invocation a second thread has taken the lock and is about
\* to load the slot, while a third is about to try the compare_exchange.
C17_Witness ==
    /\ initCalls = 1
    /\ \E t \in Threads : pc[t] = "load73" /\ value # Null
    /\ \E u \in Threads : pc[u] = "cas62"

====
